---------------------------- MODULE Spec2Model ----------------------------
(***************************************************************************)
(* A model of the CBOR debug decoder of src/lib.rs: decode, decode_at,     *)
(* get_int, get_f16, get_f32, get_f64, to_b8 and to_b4.                    *)
(*                                                                         *)
(* Numbers wider than TLC's integers are kept as big-endian tuples of      *)
(* bytes: a u64 is a tuple of 8 bytes, an i128 a tuple of 16 bytes in      *)
(* two's complement.  Arithmetic on them is done byte by byte, with the    *)
(* carries and borrows of the machine, so that wrap-around is visible.     *)
(* The buffer index idx is 0-based as in the source; bytes is a TLA+       *)
(* sequence, so the byte at index i is bytes[i + 1].                       *)
(***************************************************************************)
EXTENDS Integers, Sequences, FiniteSets, TLC

VARIABLES
    bytes,      \* the input buffer of decode (immutable)
    idx,        \* the cursor of decode, shared by reference with decode_at
    pc,         \* where control is: "loop", "at", "simple", "arr", "ret", "done", "panic"
    stack,      \* the suspended array frames of decode_at (the call stack)
    start,      \* the value of *idx on entry to the current decode_at call
    ret,        \* the value the current decode_at call evaluates to
    output      \* the Vec collected by decode

vars == <<bytes, idx, pc, stack, start, ret, output>>

\* Longest buffer of the general specification.
MaxLen == 3

\* The bytes the general specification builds buffers from: for every major
\* type a header, and for the additional information each class that get_int
\* and decode_at tell apart (< 24, 24..27, >= 28).
ByteSamples ==
    { 0, 1, 24, 28, 32, 64, 65, 92, 97, 120, 129, 130, 152, 160, 192, 249, 255 }

-----------------------------------------------------------------------------
(* The buffer *)

BufLen == Len(bytes)

\* bytes[i]
At(i) == bytes[i + 1]

\* bytes[a..b], the half-open slice
Slice(a, b) == SubSeq(bytes, a + 1, b)

\* (bytes[i] & 0b11100000) >> 5
MajorOf(b) == b \div 32

\* bytes[i] & 0b00011111
AdditionalOf(b) == b % 32

-----------------------------------------------------------------------------
(* Fixed-width numbers as big-endian byte tuples *)

Zero8 == [k \in 1..8 |-> 0]

\* additional as u64
CastU64(b) == [k \in 1..8 |-> IF k = 8 THEN b ELSE 0]

\* A copy that starts at out[0] instead of out[8 - bytes.len()].
to_b8_misaligned(s) == [k \in 1..8 |-> IF k <= Len(s) THEN s[k] ELSE 0]

\* out[8 - bytes.len() + i] = b, over a zeroed array
to_b8(s) == [k \in 1..8 |-> IF k > 8 - Len(s) THEN s[k - (8 - Len(s))] ELSE 0]

\* out[4 - bytes.len() + i] = b, over a zeroed array
to_b4(s) == [k \in 1..4 |-> IF k > 4 - Len(s) THEN s[k - (4 - Len(s))] ELSE 0]

\* u64::from_be_bytes: the array read most significant byte first, which is
\* the representation of a u64 here.
u64_from_be_bytes(a) == [k \in 1..8 |-> a[k]]

\* The carry out of position k when one is added to d (positions k..Len(d)).
RECURSIVE CarryIn(_, _)
CarryIn(d, k) ==
    IF k > Len(d) THEN 1
    ELSE IF d[k] = 255 THEN CarryIn(d, k + 1) ELSE 0

\* d + 1 in the width of d, wrapping.
Inc(d) == [k \in 1..Len(d) |-> (d[k] + CarryIn(d, k + 1)) % 256]

\* Whether the u64 d, taken as a usize, is at most the small number n.
AtMost(d, n) ==
    /\ \A k \in 1..5 : d[k] = 0
    /\ d[6] * 65536 + d[7] * 256 + d[8] <= n

\* The u64 d as a number, for d that is known to be small.
Small(d) == d[6] * 65536 + d[7] * 256 + d[8]

\* v as i64 as i128: the sign bit of the u64 is extended.
SignExtendI128(v) ==
    [k \in 1..16 |-> IF k <= 8 THEN (IF v[1] >= 128 THEN 255 ELSE 0) ELSE v[k - 8]]

\* v as i128, for an unsigned 64-bit v: the upper half is zero.
CastI128(v) == [k \in 1..16 |-> IF k <= 8 THEN 0 ELSE v[k - 8]]

\* The literal -1 as an i128.
MinusOne128 == [k \in 1..16 |-> 255]

\* The borrow out of position k of a - b.
RECURSIVE Borrow(_, _, _)
Borrow(a, b, k) ==
    IF k > 16 THEN 0
    ELSE IF a[k] - b[k] - Borrow(a, b, k + 1) < 0 THEN 1 ELSE 0

\* a - b in 128 bits, wrapping.
WrappingSub128(a, b) ==
    [k \in 1..16 |-> (a[k] - b[k] - Borrow(a, b, k + 1) + 256) % 256]

IsNeg128(a) == a[1] >= 128

\* Signed overflow of a - b: the operands differ in sign and the result's
\* sign is not that of a.
SubOverflows128(a, b) ==
    /\ IsNeg128(a) # IsNeg128(b)
    /\ IsNeg128(WrappingSub128(a, b)) # IsNeg128(a)

-----------------------------------------------------------------------------
(* The values of enum MajorType.  Every value is a record [t, v]. *)

U(v)    == [t |-> "U",    v |-> v]
N(v)    == [t |-> "N",    v |-> v]
BStr(s) == [t |-> "BStr", v |-> s]
Str(s)  == [t |-> "Str",  v |-> s]
Arr(a)  == [t |-> "Arr",  v |-> a]
\* Map(HashMap::new()): the map is always empty
Map     == [t |-> "Map",  v |-> <<>>]
Tag     == [t |-> "Tag",  v |-> <<>>]
False   == [t |-> "False", v |-> <<>>]
True    == [t |-> "True",  v |-> <<>>]
Null    == [t |-> "Null",  v |-> <<>>]
Undefined == [t |-> "Undefined", v |-> <<>>]
F16(f)  == [t |-> "F16",  v |-> f]
F32(f)  == [t |-> "F32",  v |-> f]
F64(f)  == [t |-> "F64",  v |-> f]
Invalid == [t |-> "Invalid", v |-> <<>>]

\* No value: the content of ret while no call has returned.
NoValue == [t |-> "none", v |-> <<>>]

-----------------------------------------------------------------------------
(* Floating-point values.  A finite one is sign * mant * 2^exp, kept with  *)
(* mant odd (or zero, then exp = 0), so that equal numbers are equal       *)
(* records; kind is "finite", "inf" or "nan".                              *)

Finite(sign, mant, exp) ==
    [kind |-> "finite", sign |-> sign, mant |-> mant, exp |-> exp]

RECURSIVE Normalize(_, _, _)
Normalize(sign, mant, exp) ==
    IF mant = 0 THEN Finite(sign, 0, 0)
    ELSE IF mant % 2 = 0 THEN Normalize(sign, mant \div 2, exp + 1)
    ELSE Finite(sign, mant, exp)

\* 2.0_f32.powi(exponent) * (1.0_f32 + fraction / 1024_f32) * sign.
\* fraction < 1024 and -15 <= exponent <= 16: the quotient, the sum and
\* both products are exact in f32 (11 significant bits, binade within the
\* normal range), so no rounding takes place.
F16Formula(sign, exponent, fraction) ==
    Normalize(sign, 1024 + fraction, exponent - 10)

-----------------------------------------------------------------------------
(* get_int, get_f16, get_f32, get_f64 *)

\* get_int without the *i += 1 of its first branch.
get_int_stuck(i) ==
    LET additional == AdditionalOf(At(i)) IN
    IF additional < 24
    THEN [kind |-> "some", v |-> CastU64(additional), i |-> i]
    ELSE IF additional < 28
    THEN LET nbytes == 2 ^ (additional - 24) IN
         IF i + nbytes >= BufLen
         THEN [kind |-> "panic", v |-> Zero8, i |-> i]
         ELSE [kind |-> "some",
               v |-> u64_from_be_bytes(to_b8(Slice(i + 1, i + nbytes + 1))),
               i |-> i + nbytes + 1]
    ELSE [kind |-> "none", v |-> Zero8, i |-> i]

\* The result of get_int at index i: kind is "some" (Some(v), with the new
\* index), "none" (None, index unchanged) or "panic" (the slice
\* bytes[i + 1..=i + nbytes] is out of range).
get_int(i) ==
    LET additional == AdditionalOf(At(i)) IN
    IF additional < 24
    THEN [kind |-> "some", v |-> CastU64(additional), i |-> i + 1]
    ELSE IF additional < 28
    THEN LET nbytes == 2 ^ (additional - 24) IN
         IF i + nbytes >= BufLen
         THEN [kind |-> "panic", v |-> Zero8, i |-> i]
         ELSE [kind |-> "some",
               v |-> u64_from_be_bytes(to_b8(Slice(i + 1, i + nbytes + 1))),
               i |-> i + nbytes + 1]
    ELSE [kind |-> "none", v |-> Zero8, i |-> i]

\* get_f16 at index i: panics when bytes[i + 1] or bytes[i + 2] is out of
\* range, before the index is changed.
get_f16(i) ==
    IF i + 2 >= BufLen
    THEN [kind |-> "panic", v |-> NoValue, i |-> i]
    ELSE LET b1 == At(i + 1)
             b2 == At(i + 2)
             sign == IF b1 \div 128 = 0 THEN 1 ELSE -1
             exponent == ((b1 % 128) \div 4) - 15
             fraction == (b1 % 4) * 256 + b2
         IN  [kind |-> "some", v |-> F16(F16Formula(sign, exponent, fraction)),
              i |-> i + 2]

\* get_f32 at index i: the index is advanced by 4 first, then the slice
\* bytes[*idx - 3..=*idx] is taken.
get_f32(i) ==
    IF i + 4 >= BufLen
    THEN [kind |-> "panic", v |-> NoValue, i |-> i + 4]
    ELSE [kind |-> "some", v |-> F32(to_b4(Slice(i + 1, i + 5))), i |-> i + 4]

\* get_f64 at index i: as get_f32, with 8 bytes.
get_f64(i) ==
    IF i + 8 >= BufLen
    THEN [kind |-> "panic", v |-> NoValue, i |-> i + 8]
    ELSE [kind |-> "some", v |-> F64(to_b8(Slice(i + 1, i + 9))), i |-> i + 8]

-----------------------------------------------------------------------------
(* String::from_utf8: whether a byte sequence is well-formed UTF-8 *)

IsCont(b) == b >= 128 /\ b <= 191

RECURSIVE ValidUtf8(_)
ValidUtf8(s) ==
    IF s = <<>> THEN TRUE
    ELSE LET b == s[1]
             n == Len(s)
         IN
         IF b < 128 THEN ValidUtf8(Tail(s))
         ELSE IF b >= 194 /\ b <= 223
         THEN n >= 2 /\ IsCont(s[2]) /\ ValidUtf8(SubSeq(s, 3, n))
         ELSE IF b >= 224 /\ b <= 239
         THEN /\ n >= 3
              /\ IsCont(s[2]) /\ IsCont(s[3])
              /\ (b = 224 => s[2] >= 160)
              /\ (b = 237 => s[2] <= 159)
              /\ ValidUtf8(SubSeq(s, 4, n))
         ELSE IF b >= 240 /\ b <= 244
         THEN /\ n >= 4
              /\ IsCont(s[2]) /\ IsCont(s[3]) /\ IsCont(s[4])
              /\ (b = 240 => s[2] >= 144)
              /\ (b = 244 => s[2] <= 143)
              /\ ValidUtf8(SubSeq(s, 5, n))
         ELSE FALSE

-----------------------------------------------------------------------------
(* decode *)

\* while idx < bytes.len() { decode_at(bytes, &mut idx) ...
DecodeWhile ==
    /\ pc = "loop"
    /\ idx < BufLen
    /\ pc' = "at"
    /\ UNCHANGED <<bytes, idx, stack, start, ret, output>>

\* ... } format!("{:?}", output)
DecodeFinish ==
    /\ pc = "loop"
    /\ idx >= BufLen
    /\ pc' = "done"
    /\ UNCHANGED <<bytes, idx, stack, start, ret, output>>

\* output.push(<the value decode_at returned>); idx += 1;
DecodePush ==
    /\ pc = "ret"
    /\ stack = <<>>
    /\ output' = Append(output, ret)
    /\ idx' = idx + 1
    /\ pc' = "loop"
    /\ UNCHANGED <<bytes, stack, start, ret>>

-----------------------------------------------------------------------------
(* decode_at *)

\* A suspended array branch of decode_at: the range iterator i..len of the
\* for loop, the Vec built so far, and the index its call was entered at.
Frame(len, at) == [i |-> Zero8, len |-> len, arr |-> <<>>, start |-> at]

Top == stack[Len(stack)]

SetTop(f) == [stack EXCEPT ![Len(stack)] = f]

Panic ==
    /\ pc' = "panic"
    /\ UNCHANGED <<bytes, stack, output>>

\* bytes[*idx] with *idx out of range: reached from the array loop only,
\* decode tests idx < bytes.len() before it calls.
DecodeAtEnd ==
    /\ pc = "at"
    /\ idx >= BufLen
    /\ start' = idx
    /\ Panic
    /\ UNCHANGED <<idx, ret>>

Entered(major) ==
    /\ pc = "at"
    /\ idx < BufLen
    /\ MajorOf(At(idx)) = major
    /\ start' = idx

\* 0 => get_int(&bytes, idx).map(|v| U(v)).unwrap_or(Invalid)
DecodeAtU ==
    /\ Entered(0)
    /\ LET r == get_int(idx) IN
       CASE r.kind = "some"  -> /\ ret' = U(r.v)
                                /\ idx' = r.i
                                /\ pc' = "ret"
                                /\ UNCHANGED <<bytes, stack, output>>
         [] r.kind = "none"  -> /\ ret' = Invalid
                                /\ idx' = r.i
                                /\ pc' = "ret"
                                /\ UNCHANGED <<bytes, stack, output>>
         [] r.kind = "panic" -> Panic /\ UNCHANGED <<idx, ret>>

\* 1 => get_int(&bytes, idx).map(|v| N(-1 - (v as i128))).unwrap_or(Invalid)
\* A subtraction that overflows panics in a build with overflow checks and
\* wraps in one without.
DecodeAtN ==
    /\ Entered(1)
    /\ LET r == get_int(idx) IN
       CASE r.kind = "some"  ->
                LET w == CastI128(r.v) IN
                \/ /\ ret' = N(WrappingSub128(MinusOne128, w))
                   /\ idx' = r.i
                   /\ pc' = "ret"
                   /\ UNCHANGED <<bytes, stack, output>>
                \/ /\ SubOverflows128(MinusOne128, w)
                   /\ idx' = r.i
                   /\ Panic
                   /\ UNCHANGED ret
         [] r.kind = "none"  -> /\ ret' = Invalid
                                /\ idx' = r.i
                                /\ pc' = "ret"
                                /\ UNCHANGED <<bytes, stack, output>>
         [] r.kind = "panic" -> Panic /\ UNCHANGED <<idx, ret>>

\* A slice that stops one byte short.
StringSliceShort(i, len) == IF len = 0 THEN <<>> ELSE Slice(i, i + len - 1)

\* bytes[*idx..*idx + len].to_vec() with *idx = i
StringSlice(i, len) == Slice(i, i + len)

\* 2 => { let len = get_int(..).unwrap() as usize;
\*        let byte_string = bytes[*idx..*idx + len].to_vec();
\*        *idx += len; BStr(byte_string) }
\* unwrap panics on None; the slice panics when *idx + len exceeds the
\* buffer (or overflows usize).
DecodeAtBStr ==
    /\ Entered(2)
    /\ LET r == get_int(idx) IN
       IF r.kind # "some"
       THEN Panic /\ UNCHANGED <<idx, ret>>
       ELSE IF ~AtMost(r.v, BufLen - r.i)
       THEN Panic /\ idx' = r.i /\ UNCHANGED ret
       ELSE /\ ret' = BStr(StringSlice(r.i, Small(r.v)))
            /\ idx' = r.i + Small(r.v)
            /\ pc' = "ret"
            /\ UNCHANGED <<bytes, stack, output>>

\* 3 => { ... Str(String::from_utf8(utf).unwrap()) }
\* as for 2; from_utf8(..).unwrap() panics on bytes that are not UTF-8,
\* after *idx += len.
DecodeAtStr ==
    /\ Entered(3)
    /\ LET r == get_int(idx) IN
       IF r.kind # "some"
       THEN Panic /\ UNCHANGED <<idx, ret>>
       ELSE IF ~AtMost(r.v, BufLen - r.i)
       THEN Panic /\ idx' = r.i /\ UNCHANGED ret
       ELSE LET utf == StringSlice(r.i, Small(r.v)) IN
            /\ idx' = r.i + Small(r.v)
            /\ IF ValidUtf8(utf)
               THEN /\ ret' = Str(utf)
                    /\ pc' = "ret"
                    /\ UNCHANGED <<bytes, stack, output>>
               ELSE Panic /\ UNCHANGED ret

\* 4 => { let len = get_int(..).unwrap() as usize;
\*        let mut array = Vec::new(); for _ in 0..len {
DecodeAtArr ==
    /\ Entered(4)
    /\ LET r == get_int(idx) IN
       IF r.kind # "some"
       THEN Panic /\ UNCHANGED <<idx, ret>>
       ELSE /\ stack' = Append(stack, Frame(r.v, idx))
            /\ idx' = r.i
            /\ pc' = "arr"
            /\ UNCHANGED <<bytes, ret, output>>

\* for _ in 0..len { decode_at(bytes, idx) ...: one more iteration
ArrNext ==
    /\ pc = "arr"
    /\ Top.i # Top.len
    /\ stack' = SetTop([Top EXCEPT !.i = Inc(Top.i)])
    /\ pc' = "at"
    /\ UNCHANGED <<bytes, idx, start, ret, output>>

\* ... array.push(<the value decode_at returned>) }
ArrPush ==
    /\ pc = "ret"
    /\ stack # <<>>
    /\ stack' = SetTop([Top EXCEPT !.arr = Append(Top.arr, ret)])
    /\ pc' = "arr"
    /\ UNCHANGED <<bytes, idx, start, ret, output>>

\* the range is exhausted: Arr(array)
ArrDone ==
    /\ pc = "arr"
    /\ Top.i = Top.len
    /\ ret' = Arr(Top.arr)
    /\ start' = Top.start
    /\ stack' = SubSeq(stack, 1, Len(stack) - 1)
    /\ pc' = "ret"
    /\ UNCHANGED <<bytes, idx, output>>

\* 5 => Map(HashMap::new()): nothing is read, the cursor stays
DecodeAtMap ==
    /\ Entered(5)
    /\ ret' = Map
    /\ pc' = "ret"
    /\ UNCHANGED <<bytes, idx, stack, output>>

\* 6 => Tag: nothing is read, the cursor stays
DecodeAtTag ==
    /\ Entered(6)
    /\ ret' = Tag
    /\ pc' = "ret"
    /\ UNCHANGED <<bytes, idx, stack, output>>

\* let out = match additional { 20 => False, ..., 27 => F64(..), _ => Invalid }
SimpleOut(i) ==
    LET additional == AdditionalOf(At(i)) IN
    CASE additional = 20 -> [kind |-> "some", v |-> False, i |-> i]
      [] additional = 21 -> [kind |-> "some", v |-> True, i |-> i]
      [] additional = 22 -> [kind |-> "some", v |-> Null, i |-> i]
      [] additional = 23 -> [kind |-> "some", v |-> Undefined, i |-> i]
      [] additional = 25 -> get_f16(i)
      [] additional = 26 -> get_f32(i)
      [] additional = 27 -> get_f64(i)
      [] OTHER           -> [kind |-> "some", v |-> Invalid, i |-> i]

\* 7 => { let additional = ..; let out = match additional {..};
DecodeAtSimple ==
    /\ Entered(7)
    /\ LET r == SimpleOut(idx) IN
       /\ idx' = r.i
       /\ IF r.kind = "some"
          THEN /\ ret' = r.v
               /\ pc' = "simple"
               /\ UNCHANGED <<bytes, stack, output>>
          ELSE Panic /\ UNCHANGED ret

\* *idx += 1; out }
SimpleAdvance ==
    /\ pc = "simple"
    /\ idx' = idx + 1
    /\ pc' = "ret"
    /\ UNCHANGED <<bytes, stack, start, ret, output>>

-----------------------------------------------------------------------------
(* The specifications *)

\* The state decode starts in, for the buffer b.
Entry(b) ==
    /\ bytes = b
    /\ idx = 0
    /\ pc = "loop"
    /\ stack = <<>>
    /\ start = 0
    /\ ret = NoValue
    /\ output = <<>>

\* All buffers of at most MaxLen sample bytes.
Buffers == UNION { [1..n -> ByteSamples] : n \in 0..MaxLen }

\* The buffers of the tests of src/lib.rs (mod test), as minicbor encodes
\* them: int_0, int_24, int_u64_max, neg_int_23, neg_int_i64_max, float16,
\* float32, float64, bytestring, string, array, struct_n0, struct_n1,
\* enum_1, enum_vec.
TestVectors ==
    { <<0>>,
      <<24, 24>>,
      <<27, 255, 255, 255, 255, 255, 255, 255, 254>>,
      <<54>>,
      <<59, 127, 255, 255, 255, 255, 255, 255, 255>>,
      <<249, 60, 1>>,
      <<250, 63, 128, 0, 0>>,
      <<251, 66, 2, 202, 85, 80, 184, 205, 64>>,
      <<69, 1, 2, 3, 4, 5>>,
      <<107, 72, 101, 108, 108, 111, 32, 87, 111, 114, 108, 100>>,
      <<133, 1, 2, 3, 4, 5>>,
      <<129, 102, 102, 111, 111, 98, 97, 114>>,
      <<130, 246, 102, 102, 111, 111, 98, 97, 114>>,
      <<130, 1, 130, 246, 99, 102, 111, 111>>,
      <<130, 130, 1, 130, 246, 99, 102, 111, 111,
             130, 2, 130, 246, 99, 98, 97, 114>> }

Init == \E b \in Buffers \cup TestVectors : Entry(b)

Next ==
    \/ DecodeWhile
    \/ DecodeFinish
    \/ DecodePush
    \/ DecodeAtEnd
    \/ DecodeAtU
    \/ DecodeAtN
    \/ DecodeAtBStr
    \/ DecodeAtStr
    \/ DecodeAtArr
    \/ ArrNext
    \/ ArrPush
    \/ ArrDone
    \/ DecodeAtMap
    \/ DecodeAtTag
    \/ DecodeAtSimple
    \/ SimpleAdvance

Spec == Init /\ [][Next]_vars

\* decode runs to completion once called: no step waits on anything.
FairSpec == Spec /\ WF_vars(Next)

(* Buffers that hold one integer item: major type 0 or 1, the argument   *)
(* drawn from the whole 64-bit range, in any of the widths that hold it.  *)

\* Sample arguments: every byte position takes its extreme values, the top
\* byte also those around the sign bit of an i64, the low byte those around
\* the limit of the additional information.
U64Samples ==
    { <<a, b, c, d, e, f, g, h>> :
        a \in {0, 127, 128, 255},
        b \in {0, 255}, c \in {0, 255}, d \in {0, 255},
        e \in {0, 1, 255}, f \in {0, 255}, g \in {0, 1, 255},
        h \in {0, 1, 23, 24, 255} }

Widths == {0, 1, 2, 4, 8}

\* Whether the argument n can be written in w argument bytes (w = 0: in the
\* additional information itself).
FitsWidth(n, w) ==
    IF w = 0 THEN (\A k \in 1..7 : n[k] = 0) /\ n[8] < 24
    ELSE \A k \in 1..(8 - w) : n[k] = 0

\* The least width that holds n.
MinWidth(n) == CHOOSE w \in Widths : 
    FitsWidth(n, w) /\ \A x \in Widths : FitsWidth(n, x) => w <= x

\* The item of major type mt with argument n written in w bytes.
IntItem(mt, n, w) ==
    LET ai == CASE w = 0 -> n[8] [] w = 1 -> 24 [] w = 2 -> 25
                [] w = 4 -> 26 [] w = 8 -> 27
    IN  <<mt * 32 + ai>> \o SubSeq(n, 9 - w, 8)

\* The minimal-length encoding of n.
Canonical(mt, n) == IntItem(mt, n, MinWidth(n))

InitInt ==
    \E mt \in {0, 1}, n \in U64Samples, w \in Widths :
        /\ FitsWidth(n, w)
        /\ Entry(IntItem(mt, n, w))

\* The steps a buffer of one integer item can take.
NextInt ==
    \/ DecodeWhile
    \/ DecodeFinish
    \/ DecodePush
    \/ DecodeAtU
    \/ DecodeAtN

SpecInt == InitInt /\ [][NextInt]_vars

-----------------------------------------------------------------------------
(* The CBOR data model the decoder is specified against (spec sections 4.2 *)
(* to 4.4): what a well-formed item at a position is, what it denotes and  *)
(* where it ends.  Used by the properties only.                            *)

\* A byte string as a 64-bit number, big-endian: the byte of weight 256^j
\* is the j-th from the end.
BigEndian(s) ==
    [k \in 1..8 |-> IF 8 - k < Len(s) THEN s[Len(s) - (8 - k)] ELSE 0]

Complement(d) == [k \in 1..Len(d) |-> 255 - d[k]]

ZeroExtend16(v) == [k \in 1..16 |-> IF k <= 8 THEN 0 ELSE v[k - 8]]

\* -1 - v as a 128-bit two's complement number: the complement of v.
RefNeg(v) == Complement(ZeroExtend16(v))

\* The IEEE-754 binary16 value of the two bytes b1 b2.
RefHalf(b1, b2) ==
    LET sign == IF b1 < 128 THEN 1 ELSE -1
        e == (b1 % 128) \div 4
        m == (b1 % 4) * 256 + b2
    IN  IF e = 0 THEN Normalize(sign, m, -24)
        ELSE IF e = 31
        THEN IF m = 0
             THEN [kind |-> "inf", sign |-> sign, mant |-> 0, exp |-> 0]
             ELSE [kind |-> "nan", sign |-> 0, mant |-> 0, exp |-> 0]
        ELSE Normalize(sign, 1024 + m, e - 25)

RefFail == [ok |-> FALSE, val |-> NoValue, next |-> 0]

\* The argument of the header at pos.
RefArg(pos) ==
    LET ai == AdditionalOf(At(pos)) IN
    IF ai < 24 THEN [ok |-> TRUE, v |-> BigEndian(<<ai>>), next |-> pos + 1]
    ELSE IF ai < 28
    THEN LET n == 2 ^ (ai - 24) IN
         IF pos + n < BufLen
         THEN [ok |-> TRUE, v |-> BigEndian(Slice(pos + 1, pos + n + 1)),
               next |-> pos + n + 1]
         ELSE [ok |-> FALSE, v |-> Zero8, next |-> pos]
    ELSE [ok |-> FALSE, v |-> Zero8, next |-> pos]

RECURSIVE RefItem(_), RefItems(_, _, _)

\* n well-formed items in a row from pos on, collected after acc.
RefItems(pos, n, acc) ==
    IF n = 0 THEN [ok |-> TRUE, val |-> acc, next |-> pos]
    ELSE IF pos >= BufLen THEN RefFail
    ELSE LET it == RefItem(pos) IN
         IF ~it.ok THEN RefFail
         ELSE RefItems(it.next, n - 1, Append(acc, it.val))

\* The well-formed item at pos < BufLen: its value and the position after
\* it.  A map denotes the sequence of its keys and values, a tag its number
\* and content.
RefItem(pos) ==
    LET major == MajorOf(At(pos))
        arg == RefArg(pos)
    IN
    IF major = 7
    THEN LET ai == AdditionalOf(At(pos)) IN
         CASE ai = 20 -> [ok |-> TRUE, val |-> False, next |-> pos + 1]
           [] ai = 21 -> [ok |-> TRUE, val |-> True, next |-> pos + 1]
           [] ai = 22 -> [ok |-> TRUE, val |-> Null, next |-> pos + 1]
           [] ai = 23 -> [ok |-> TRUE, val |-> Undefined, next |-> pos + 1]
           [] ai = 25 /\ pos + 2 < BufLen ->
                [ok |-> TRUE, val |-> F16(RefHalf(At(pos + 1), At(pos + 2))),
                 next |-> pos + 3]
           [] ai = 26 /\ pos + 4 < BufLen ->
                [ok |-> TRUE, val |-> F32(Slice(pos + 1, pos + 5)), next |-> pos + 5]
           [] ai = 27 /\ pos + 8 < BufLen ->
                [ok |-> TRUE, val |-> F64(Slice(pos + 1, pos + 9)), next |-> pos + 9]
           [] OTHER -> RefFail
    ELSE IF ~arg.ok THEN RefFail
    ELSE CASE major = 0 -> [ok |-> TRUE, val |-> U(arg.v), next |-> arg.next]
           [] major = 1 -> [ok |-> TRUE, val |-> N(RefNeg(arg.v)), next |-> arg.next]
           [] major \in {2, 3} ->
                IF ~AtMost(arg.v, BufLen - arg.next) THEN RefFail
                ELSE LET s == Slice(arg.next, arg.next + Small(arg.v)) IN
                     IF major = 2
                     THEN [ok |-> TRUE, val |-> BStr(s), next |-> arg.next + Len(s)]
                     ELSE IF ValidUtf8(s)
                     THEN [ok |-> TRUE, val |-> Str(s), next |-> arg.next + Len(s)]
                     ELSE RefFail
           [] major = 4 ->
                IF ~AtMost(arg.v, BufLen) THEN RefFail
                ELSE LET r == RefItems(arg.next, Small(arg.v), <<>>) IN
                     IF r.ok THEN [r EXCEPT !.val = Arr(r.val)] ELSE RefFail
           [] major = 5 ->
                IF ~AtMost(arg.v, BufLen) THEN RefFail
                ELSE LET r == RefItems(arg.next, 2 * Small(arg.v), <<>>) IN
                     IF r.ok THEN [r EXCEPT !.val = [t |-> "Map", v |-> r.val]]
                     ELSE RefFail
           [] major = 6 ->
                LET r == RefItems(arg.next, 1, <<>>) IN
                IF r.ok
                THEN [r EXCEPT !.val = [t |-> "Tag", v |-> <<arg.v, r.val[1]>>]]
                ELSE RefFail

\* The buffer from pos on as a concatenation of well-formed items.
RECURSIVE RefAll(_, _)
RefAll(pos, acc) ==
    IF pos >= BufLen THEN [ok |-> TRUE, val |-> acc, next |-> pos]
    ELSE LET it == RefItem(pos) IN
         IF ~it.ok THEN RefFail ELSE RefAll(it.next, Append(acc, it.val))

WellFormedBuffer == RefAll(0, <<>>).ok

-----------------------------------------------------------------------------
(* Properties *)

\* C1: for a buffer that is a concatenation of k well-formed items, decode
\* returns exactly the k values of those items, in order: it does not abort,
\* drops no item and skips no byte.
DecodeReturnsEveryItem ==
    WellFormedBuffer =>
        /\ pc # "panic"
        /\ pc = "done" => output = RefAll(0, <<>>).val

\* C2: the cursor never exceeds the buffer length, and no step decreases it.
CursorWithinBufferAndMonotonic ==
    /\ [](idx >= 0 /\ idx <= BufLen)
    /\ [][idx' >= idx]_vars

\* C5: a definite-length array header followed by its n well-formed items
\* decodes to Arr of the n items' values, and the cursor ends right after
\* the n-th item.
ArrayDecodesEveryElement ==
    (/\ pc \in {"ret", "simple", "panic"}
     /\ start < BufLen
     /\ MajorOf(At(start)) = 4
     /\ RefItem(start).ok)
    => /\ pc = "ret"
       /\ ret = RefItem(start).val
       /\ idx = RefItem(start).next

\* The item at pos announces more bytes than the buffer holds: argument
\* bytes, float bytes, or the content of a byte or text string.
Truncated(pos) ==
    LET major == MajorOf(At(pos))
        ai == AdditionalOf(At(pos))
    IN  \/ /\ ai \in 24..27
           /\ major \in 0..4 \/ (major = 7 /\ ai # 24)
           /\ pos + 2 ^ (ai - 24) >= BufLen
        \/ /\ major \in {2, 3}
           /\ RefArg(pos).ok
           /\ ~AtMost(RefArg(pos).v, BufLen - RefArg(pos).next)

\* C7: an item that announces more bytes than remain never aborts the
\* process.
TruncatedInputNeverPanics ==
    (pc = "panic" /\ start < BufLen) => ~Truncated(start)

\* C8: a header of major type 0..5 with additional information 28..31
\* produces no value and does not abort.
ReservedInfo(pos) ==
    /\ MajorOf(At(pos)) \in 0..5
    /\ AdditionalOf(At(pos)) \in 28..31

ReservedInfoYieldsNoValueNoAbort ==
    (pc \in {"ret", "panic"} /\ start < BufLen) => ~ReservedInfo(start)

\* C9: the two bytes after a 0xF9 header decode to their IEEE-754 binary16
\* value, and the item takes 3 bytes.
HalfFloatIsBinary16 ==
    (/\ pc = "ret"
     /\ start + 2 < BufLen
     /\ At(start) = 249)
    => /\ ret = F16(RefHalf(At(start + 1), At(start + 2)))
       /\ idx = start + 3

\* The argument the one-item buffer of SpecInt carries.
BufferArgument == RefArg(0).v

\* C3: decoding the minimal-length major-type-0 encoding of n yields the
\* single value U(n), the argument bytes read big-endian, and the whole
\* encoding is consumed.
CanonicalUnsignedDecodes ==
    bytes = Canonical(0, BufferArgument) =>
        /\ pc # "panic"
        /\ pc = "ret" => ret = U(BufferArgument) /\ idx = BufLen
        /\ pc = "done" => output = <<U(BufferArgument)>>

\* An 8-byte canonical encoding whose argument has unequal bytes has been
\* decoded to the end.
CanonicalUnsignedDecoded ==
    /\ pc = "done"
    /\ bytes = Canonical(0, BufferArgument)
    /\ BufLen = 9
    /\ bytes[2] = 127 /\ bytes[9] = 24
    /\ Len(output) = 1

MinusTwoTo63 == [k \in 1..16 |-> IF k <= 8 THEN 255 ELSE IF k = 9 THEN 128 ELSE 0]

MinusTwoTo64 == [k \in 1..16 |-> IF k <= 8 THEN 255 ELSE 0]

\* C4: a major-type-1 item with argument v decodes to N(-1 - v) without
\* overflow or wrap-around: the result is negative and its magnitude is
\* v + 1; v = 2^63 - 1 gives -2^63 and v = 2^64 - 1 gives -2^64.
NegativeIntIsMinusOneMinusArgument ==
    (MajorOf(At(0)) = 1 /\ RefArg(0).ok) =>
        /\ pc # "panic"
        /\ pc = "ret" =>
            /\ ret.t = "N"
            /\ IsNeg128(ret.v)
            /\ Inc(Complement(ret.v)) = Inc(ZeroExtend16(BufferArgument))
            /\ BufferArgument = <<127, 255, 255, 255, 255, 255, 255, 255>>
                    => ret.v = MinusTwoTo63
            /\ BufferArgument = <<255, 255, 255, 255, 255, 255, 255, 255>>
                    => ret.v = MinusTwoTo64

\* The item with argument 2^64 - 1 has been decoded.
NegativeIntExtremeDecoded ==
    /\ pc = "ret"
    /\ MajorOf(At(0)) = 1
    /\ BufferArgument = <<255, 255, 255, 255, 255, 255, 255, 255>>
    /\ ret = N(MinusTwoTo64)

\* The item at pos is a byte or text string whose declared length fits the
\* rest of the buffer, and whose bytes are UTF-8 if it is a text string.
FittingString(pos) ==
    /\ MajorOf(At(pos)) \in {2, 3}
    /\ RefArg(pos).ok
    /\ AtMost(RefArg(pos).v, BufLen - RefArg(pos).next)
    /\ MajorOf(At(pos)) = 3 =>
          ValidUtf8(Slice(RefArg(pos).next, RefArg(pos).next + Small(RefArg(pos).v)))

\* C6: a string whose declared length fits decodes to exactly the len bytes
\* after its header, and the cursor advances by header size + len; for
\* len = 0 only the header is consumed, also at the end of the buffer.
StringDecodesDeclaredBytes ==
    (pc \in {"ret", "panic"} /\ start < BufLen /\ FittingString(start)) =>
        LET first == RefArg(start).next
            len == Small(RefArg(start).v)
            content == [k \in 1..len |-> At(first + k - 1)]
        IN  /\ pc = "ret"
            /\ ret = IF MajorOf(At(start)) = 2 THEN BStr(content) ELSE Str(content)
            /\ idx = first + len

\* A text string of one byte has been decoded as an element of an array.
StringDecodedInArray ==
    /\ pc = "ret"
    /\ stack # <<>>
    /\ start + 1 < BufLen
    /\ At(start) = 97
    /\ ret = Str(<<At(start + 1)>>)
    /\ idx = start + 2

\* A text string with a two-byte header has been decoded.
LongHeaderStringDecoded ==
    /\ pc = "ret"
    /\ start + 2 < BufLen
    /\ At(start) = 120
    /\ ret = Str(<<At(start + 2)>>)
    /\ idx = start + 3

\* An empty string whose header is the last byte of the buffer has been
\* decoded.
EmptyStringDecodedAtEnd ==
    /\ pc = "ret"
    /\ start = BufLen - 1
    /\ At(start) = 64
    /\ ret = BStr(<<>>)
    /\ idx = BufLen

Terminated == pc \in {"done", "panic"}

\* C10: decode terminates on every buffer.  Every step leaves the cursor
\* where it is or advances it; the step that ends a top-level iteration
\* advances it; an array's elements are decoded only after the cursor has
\* passed the array's header, so the nesting depth stays below the cursor
\* and within the buffer length; an array that is returned has run its loop
\* as often as its header declares.
DecodeTerminates ==
    /\ <>Terminated
    /\ [](Len(stack) <= BufLen)
    /\ []((pc = "ret" /\ ret.t = "Arr") =>
            (AtMost(RefArg(start).v, Len(ret.v)) /\ Small(RefArg(start).v) = Len(ret.v)))
    /\ [][/\ idx' >= idx
          /\ (pc = "ret" /\ pc' = "loop") => idx' > idx
          /\ (pc = "at" /\ pc' = "arr") => idx' > idx]_vars

\* decode has returned after decoding an array nested in an array.
NestedArrayDecoded ==
    /\ pc = "done"
    /\ Len(output) = 1
    /\ output[1].t = "Arr"
    /\ Len(output[1].v) = 1
    /\ output[1].v[1].t = "Arr"
    /\ Len(output[1].v[1].v) = 1

====
